---------------------------- MODULE Spec2Model ----------------------------
(***************************************************************************)
(* Model of page_split::Task::process (filters/page_split/Task.cpp).       *)
(*                                                                         *)
(* One worker runs process() calls one after another.  A call is modelled  *)
(* statement group by statement group, so that the TaskStatus cancellation *)
(* flag, which another thread sets, can change between any two of them.    *)
(* The Settings parameter store and the PageSequence page-count table are  *)
(* shared state that outlives a call.  The store starts with at most one   *)
(* entry, on page pA, of any layout (null included) and either mode; the   *)
(* calls' images, rotations and rules vary, so that entry is matched by    *)
(* some calls and not by others.                                           *)
(***************************************************************************)
EXTENDS Integers, FiniteSets, Sequences, TLC

(* ------------------------------ bounds -------------------------------- *)
\* number of process() calls in one behaviour
MaxCalls == 2
\* number of distinct images a call may be given
NumImages == 2
\* number of distinct split-line positions a layout may hold
NumLines == 2

(* ---------------------------- value spaces ---------------------------- *)
Pages == {"pA", "pB"}
Images == 1..NumImages
Rotations == {0, 90}
Rules == {"AUTO_DETECT", "SINGLE_PAGE", "TWO_PAGES"}
Modes == {"MODE_AUTO", "MODE_MANUAL"}
NextResults == {"deskewR1", "deskewR2"}

\* PageLayout: default-constructed (line 124) it is null.
NullLayout == [sub |-> 0, line |-> 0]
Layouts == [sub : 1..2, line : 0..(NumLines - 1)]
isNull(l) == l.sub = 0
numSubPages(l) == l.sub

\* Dependencies(image, pre_rotation, single_page), line 123.
Dependencies(img, rot, single) ==
    [image |-> img, rotation |-> rot, singlePage |-> single]
NoDeps == [image |-> 0, rotation |-> 0, singlePage |-> FALSE]

\* Dependencies::matches(stored, mode): the comparable fields are identical.
matches(deps, stored, mode) ==
    /\ deps.image = stored.image
    /\ deps.rotation = stored.rotation
    /\ deps.singlePage = stored.singlePage

\* Params(layout, deps, mode), line 143; getPageParams returns a null
\* auto_ptr when the page has no entry.
Params(l, d, m) == [present |-> TRUE, layout |-> l, deps |-> d, mode |-> m]
NoParams ==
    [present |-> FALSE, layout |-> NullLayout, deps |-> NoDeps,
     mode |-> "MODE_AUTO"]

\* The parameters a project may hold for a page when the worker starts:
\* computed or set by hand, for one image, rotation and page intent.
InitParams ==
    {Params(l, Dependencies(1, 0, TRUE), m) :
        l \in Layouts \cup {NullLayout}, m \in Modes}

\* PageSequence::adviseNumberOfLogicalPages(metadata, pre_rotation): a pure
\* function of the image's size and the rotation.  Odd images are
\* landscape scans, even ones portrait; a quarter turn swaps the two.
IsLandscape(img, rot) == (img % 2 = 1) = (rot \in {0, 180})
adviseNumberOfLogicalPages(img, rot) == IF IsLandscape(img, rot) THEN 2 ELSE 1

\* data.bwThreshold(): the binarisation threshold FilterData holds for the
\* image, fixed by the image.
bwThreshold(img) == img \div 2

\* PageSplitFinder::findSplitLine(image, pre_rotation, bw_threshold,
\* single_page, dbg): deterministic, never null.
findSplitLine(img, rot, thr, single) ==
    [sub |-> IF single THEN 1 ELSE 2,
     line |-> (img * (1 + thr) + rot \div 90) % NumLines]

\* OptionsWidget::UiData as default-constructed at line 97.
EmptyUiData ==
    [autoDetectedLayout |-> "UNSET", dependencies |-> NoDeps,
     pageLayout |-> NullLayout, mode |-> "MODE_AUTO"]

(* ------------------------------- state -------------------------------- *)
VARIABLES
    store,              \* Settings: page -> Params or NoParams
    pageCount,          \* PageSequence: page -> logical pages in image
    cancelled,          \* TaskStatus flag of the running call
    pc,                 \* position of the running call
    calls,              \* process() calls started so far
    m_imageId,          \* Task::m_imageId
    hasNextTask,        \* Task::m_ptrNextTask is non-null
    image,              \* data.image()
    pre_rotation,       \* data.xform().preRotation()
    rule,               \* Settings::getRuleFor(m_imageId).layoutType()
    num_logical_pages,  \* local
    deps,               \* local
    layout,             \* local
    mode,               \* local
    params,             \* local: what getPageParams returned
    ui_data,            \* local
    outcome,            \* how the call ended, and what it returned
    log,                \* collaborator calls made by the running call
    entryStore,         \* store when the call started
    entryPageCount,     \* pageCount when the call started
    cancelAt,           \* the cancellation flag as it was at each step
    prev,               \* the call before this one, when it wrote the store
    other               \* a second Task, running on another thread

vars ==
    <<store, pageCount, cancelled, pc, calls, m_imageId, hasNextTask, image,
      pre_rotation, rule, num_logical_pages, deps, layout, mode, params,
      ui_data, outcome, log, entryStore, entryPageCount, cancelAt, prev,
      other>>

shared == <<store, pageCount>>
inputs == <<m_imageId, hasNextTask, image, pre_rotation>>
locals == <<rule, num_logical_pages, deps, layout, mode, params, ui_data>>

NoOutcome == [kind |-> "none", value |-> "none", ui |-> EmptyUiData]
NoLog ==
    [getPageParams |-> 0, findSplitLine |-> 0, setPageParams |-> 0,
     setLogicalPagesInImage |-> 0, nextProcess |-> 0, uiUpdater |-> 0,
     written |-> NoParams, countArg |-> 0, nextArg |-> NullLayout,
     nextResult |-> "none"]
NoCancelAt == [entry |-> FALSE, find |-> FALSE, store |-> FALSE]
NoPrev ==
    [wrote |-> FALSE, id |-> "none", image |-> 0, rotation |-> 0,
     rule |-> "none"]

\* The second Task before it is given a page.
OtherIdle ==
    [pc |-> "idle", id |-> "none", image |-> 0, rotation |-> 0,
     cancelled |-> FALSE, cancelAtEntry |-> FALSE, rule |-> "none",
     num_logical_pages |-> 1, deps |-> NoDeps, layout |-> NullLayout,
     mode |-> "MODE_AUTO", wrote |-> FALSE, kind |-> "none",
     entryParams |-> NoParams, entryCount |-> 0, overlap |-> FALSE]

Init ==
    /\ \E e \in {NoParams} \cup InitParams :
        store = [q \in Pages |-> IF q = "pA" THEN e ELSE NoParams]
    /\ pageCount = [q \in Pages |-> 1]
    /\ cancelled = FALSE
    /\ pc = "idle"
    /\ calls = 0
    /\ m_imageId = "pA"
    /\ hasNextTask = FALSE
    /\ image = 1
    /\ pre_rotation = 0
    /\ rule = "AUTO_DETECT"
    /\ num_logical_pages = 1
    /\ deps = NoDeps
    /\ layout = NullLayout
    /\ mode = "MODE_AUTO"
    /\ params = NoParams
    /\ ui_data = EmptyUiData
    /\ outcome = NoOutcome
    /\ log = NoLog
    /\ entryStore = store
    /\ entryPageCount = pageCount
    /\ cancelAt = NoCancelAt
    /\ prev = NoPrev
    /\ other = OtherIdle

(* ------------------------------ actions ------------------------------- *)
\* A Task is constructed (lines 70-85) and process() is called on it.
Begin ==
    /\ pc \in {"idle", "done", "failed"}
    /\ calls < MaxCalls
    /\ calls' = calls + 1
    /\ \E id \in Pages, nxt \in BOOLEAN, img \in Images, rot \in Rotations :
        /\ m_imageId' = id
        /\ hasNextTask' = nxt
        /\ image' = img
        /\ pre_rotation' = rot
    /\ cancelled' = FALSE
    /\ pc' = "entry"
    /\ rule' = "AUTO_DETECT"
    /\ num_logical_pages' = 1
    /\ deps' = NoDeps
    /\ layout' = NullLayout
    /\ mode' = "MODE_AUTO"
    /\ params' = NoParams
    /\ ui_data' = EmptyUiData
    /\ outcome' = NoOutcome
    /\ log' = NoLog
    /\ entryStore' = store
    /\ entryPageCount' = pageCount
    /\ cancelAt' = NoCancelAt
    /\ prev' = IF log.setPageParams > 0
                  THEN [wrote |-> TRUE, id |-> m_imageId, image |-> image,
                        rotation |-> pre_rotation, rule |-> rule]
                  ELSE NoPrev
    /\ UNCHANGED <<shared, other>>

\* Another thread requests cancellation of the running call.
Cancel ==
    /\ pc \notin {"idle", "done", "failed"}
    /\ ~cancelled
    /\ cancelled' = TRUE
    /\ UNCHANGED <<shared, pc, calls, inputs, locals, outcome, log,
                   entryStore, entryPageCount, cancelAt, prev, other>>

\* status.throwIfCancelled(), lines 94 and 146.
throwIfCancelled(flag) == flag

\* Flow that recomputes only when the page has no stored params.
FlowRecomputeOnlyIfAbsent(at, miss) ==
    CASE at = "entry" -> "resolve"
      [] at = "resolve" -> "read"
      [] at = "read" -> IF ~store[m_imageId].present THEN "find" ELSE "count"
      [] at = "find" -> "store"
      [] at = "store" -> "check"
      [] at = "check" -> "count"
      [] at = "count" -> "dispatch"
      [] at = "dispatch" -> "done"

\* Flow that hands the page count to the PageSequence after the dispatch.
FlowDispatchFirst(at, miss) ==
    CASE at = "entry" -> "resolve"
      [] at = "resolve" -> "read"
      [] at = "read" -> IF miss THEN "find" ELSE "dispatch"
      [] at = "find" -> "store"
      [] at = "store" -> "check"
      [] at = "check" -> "dispatch"
      [] at = "dispatch" -> "count"
      [] at = "count" -> "done"

\* Flow that persists the parameters on a cache hit as well.
FlowAlwaysStore(at, miss) ==
    CASE at = "entry" -> "resolve"
      [] at = "resolve" -> "read"
      [] at = "read" -> IF miss THEN "find" ELSE "store"
      [] at = "find" -> "store"
      [] at = "store" -> "check"
      [] at = "check" -> "count"
      [] at = "count" -> "dispatch"
      [] at = "dispatch" -> "done"

\* Flow with the second throwIfCancelled() placed after the page count
\* has been handed to the PageSequence.
FlowCheckLast(at, miss) ==
    CASE at = "entry" -> "resolve"
      [] at = "resolve" -> "read"
      [] at = "read" -> IF miss THEN "find" ELSE "count"
      [] at = "find" -> "store"
      [] at = "store" -> "count"
      [] at = "count" -> IF miss THEN "check" ELSE "dispatch"
      [] at = "check" -> "dispatch"
      [] at = "dispatch" -> "done"

\* The order of the statements of process(): the position that follows
\* position `at`; `miss` is layout.isNull() as tested at line 137.
Flow(at, miss) ==
    CASE at = "entry" -> "resolve"
      [] at = "resolve" -> "read"
      [] at = "read" -> IF miss THEN "find" ELSE "count"
      [] at = "find" -> "store"
      [] at = "store" -> "check"
      [] at = "check" -> "count"
      [] at = "count" -> "dispatch"
      [] at = "dispatch" -> "done"

\* Unwinding out of process() with the Cancelled exception.
Unwind ==
    /\ pc' = "failed"
    /\ outcome' = [kind |-> "Cancelled", value |-> "none", ui |-> EmptyUiData]

\* Line 94.
EntryCheckpoint ==
    /\ pc = "entry"
    /\ cancelAt' = [cancelAt EXCEPT !.entry = cancelled]
    /\ IF throwIfCancelled(cancelled)
          THEN Unwind
          ELSE pc' = Flow("entry", FALSE) /\ UNCHANGED outcome
    /\ UNCHANGED <<shared, cancelled, calls, inputs, locals, log,
                   entryStore, entryPageCount, prev, other>>

\* The switch of lines 100-120: `true` and `false` are converted to int.
LogicalPagesFor(r, img, rot) ==
    CASE r = "AUTO_DETECT" -> adviseNumberOfLogicalPages(img, rot)
      [] r = "SINGLE_PAGE" -> 1
      [] r = "TWO_PAGES" -> 0

\* AutoDetectedLayoutFor that sets the field under every rule.
AutoDetectedLayoutForAnyRule(r, n) ==
    IF n = 1 THEN "SINGLE_PAGE" ELSE "TWO_PAGES"

\* Lines 109-111: set in the AUTO_DETECT case only.
AutoDetectedLayoutFor(r, n) ==
    IF r = "AUTO_DETECT"
       THEN (IF n = 1 THEN "SINGLE_PAGE" ELSE "TWO_PAGES")
       ELSE "UNSET"

\* Line 122.
SinglePage(n) == n = 1

\* Lines 96-127.
ResolveRule ==
    /\ pc = "resolve"
    /\ \E r \in Rules :
        LET n == LogicalPagesFor(r, image, pre_rotation)
            d == Dependencies(image, pre_rotation, SinglePage(n))
        IN  /\ rule' = r
            /\ num_logical_pages' = n
            /\ deps' = d
            /\ ui_data' = [ui_data EXCEPT
                             !.autoDetectedLayout = AutoDetectedLayoutFor(r, n),
                             !.dependencies = d]
    /\ pc' = Flow("resolve", FALSE)
    /\ UNCHANGED <<shared, cancelled, calls, inputs, layout,
                   mode, params, outcome, log, entryStore, entryPageCount,
                   cancelAt, prev, other>>

\* ModeFrom that never takes the stored mode.
ModeFromAlwaysAuto(p) == "MODE_AUTO"

\* Lines 125, 130-131: the mode of the stored params, MODE_AUTO without.
ModeFrom(p) == IF p.present THEN p.mode ELSE "MODE_AUTO"

\* LayoutFrom that never reuses the stored layout.
LayoutFromNeverReuse(p, d) == NullLayout

\* Lines 124, 130-135: the stored layout when the dependencies match.
LayoutFrom(p, d) ==
    IF p.present /\ matches(d, p.deps, ModeFrom(p))
       THEN p.layout
       ELSE NullLayout

\* Lines 129-135.
GetPageParams ==
    /\ pc = "read"
    /\ LET p == store[m_imageId]
       IN  /\ params' = p
           /\ mode' = ModeFrom(p)
           /\ layout' = LayoutFrom(p, deps)
           /\ pc' = Flow("read", isNull(LayoutFrom(p, deps)))
    /\ log' = [log EXCEPT !.getPageParams = @ + 1]
    /\ UNCHANGED <<shared, cancelled, calls, inputs, rule,
                   num_logical_pages, deps, ui_data, outcome, entryStore,
                   entryPageCount, cancelAt, prev, other>>

\* Lines 137-141.
FindSplitLine ==
    /\ pc = "find"
    /\ layout' = findSplitLine(image, pre_rotation, bwThreshold(image),
                               SinglePage(num_logical_pages))
    /\ log' = [log EXCEPT !.findSplitLine = @ + 1]
    /\ cancelAt' = [cancelAt EXCEPT !.find = cancelled]
    /\ pc' = Flow("find", TRUE)
    /\ UNCHANGED <<shared, cancelled, calls, inputs, rule, num_logical_pages,
                   deps, mode, params, ui_data, outcome, entryStore,
                   entryPageCount, prev, other>>

\* NewParams that always stores MODE_AUTO.
NewParamsAutoMode(l, d, m) == Params(l, d, "MODE_AUTO")

\* NewParams that stores a default-constructed layout.
NewParamsNoLayout(l, d, m) == Params(NullLayout, d, m)

\* NewParams that stores the dependencies the old params held.
NewParamsStaleDeps(l, d, m) == Params(l, params.deps, m)

\* Line 143.
NewParams(l, d, m) == Params(l, d, m)

\* Lines 143-144.
SetPageParams ==
    /\ pc = "store"
    /\ LET new_params == NewParams(layout, deps, mode)
       IN  /\ store' = [store EXCEPT ![m_imageId] = new_params]
           /\ log' = [log EXCEPT !.setPageParams = @ + 1,
                                 !.written = new_params]
    /\ cancelAt' = [cancelAt EXCEPT !.store = cancelled]
    /\ pc' = Flow("store", log.findSplitLine > 0)
    /\ UNCHANGED <<pageCount, cancelled, calls, inputs, locals, outcome,
                   entryStore, entryPageCount, prev, other>>

\* Line 146.
RecomputeCheckpoint ==
    /\ pc = "check"
    /\ IF throwIfCancelled(cancelled)
          THEN Unwind
          ELSE pc' = Flow("check", log.findSplitLine > 0) /\ UNCHANGED outcome
    /\ UNCHANGED <<shared, cancelled, calls, inputs, locals, log,
                   entryStore, entryPageCount, cancelAt, prev, other>>

\* CountFor that derives the count from the single-page intent.
CountForFromIntent(l, n) == IF n = 1 THEN 1 ELSE 2

\* CountFor that hands over num_logical_pages instead.
CountForRuleCount(l, n) == n

\* Line 152: the count handed to setLogicalPagesInImage.
CountFor(l, n) == numSubPages(l)

\* Lines 149-152.
SetLogicalPages ==
    /\ pc = "count"
    /\ ui_data' = [ui_data EXCEPT !.pageLayout = layout, !.mode = mode]
    /\ pageCount' = [pageCount EXCEPT
                       ![m_imageId] = CountFor(layout, num_logical_pages)]
    /\ log' = [log EXCEPT !.setLogicalPagesInImage = @ + 1,
                          !.countArg = CountFor(layout, num_logical_pages)]
    /\ pc' = Flow("count", log.findSplitLine > 0)
    /\ UNCHANGED <<store, cancelled, calls, inputs, rule,
                   num_logical_pages, deps, layout, mode, params, outcome,
                   entryStore, entryPageCount, cancelAt, prev, other>>

\* Delegate that wraps the next task's result in a UiUpdater.
DelegateWrapped ==
    /\ pc = "dispatch"
    /\ hasNextTask
    /\ \E r \in NextResults :
        /\ log' = [log EXCEPT !.nextProcess = @ + 1, !.nextArg = layout,
                              !.nextResult = r, !.uiUpdater = @ + 1]
        /\ outcome' = [kind |-> "UiUpdater", value |-> r, ui |-> ui_data]
    /\ pc' = Flow("dispatch", FALSE)
    /\ UNCHANGED <<shared, cancelled, calls, inputs, locals, entryStore,
                   entryPageCount, cancelAt, prev, other>>

\* Lines 154-155: the next task's result is returned as it is.
Delegate ==
    /\ pc = "dispatch"
    /\ hasNextTask
    /\ \E r \in NextResults :
        /\ log' = [log EXCEPT !.nextProcess = @ + 1, !.nextArg = layout,
                              !.nextResult = r]
        /\ outcome' = [kind |-> "next", value |-> r, ui |-> EmptyUiData]
    /\ pc' = Flow("dispatch", FALSE)
    /\ UNCHANGED <<shared, cancelled, calls, inputs, locals, entryStore,
                   entryPageCount, cancelAt, prev, other>>

\* Lines 156-163: a UiUpdater holding a copy of ui_data.
ReturnUiUpdater ==
    /\ pc = "dispatch"
    /\ ~hasNextTask
    /\ outcome' = [kind |-> "UiUpdater", value |-> "none", ui |-> ui_data]
    /\ log' = [log EXCEPT !.uiUpdater = @ + 1]
    /\ pc' = Flow("dispatch", FALSE)
    /\ UNCHANGED <<shared, cancelled, calls, inputs, locals, entryStore,
                   entryPageCount, cancelAt, prev, other>>

Next ==
    \/ Begin
    \/ Cancel
    \/ EntryCheckpoint
    \/ ResolveRule
    \/ GetPageParams
    \/ FindSplitLine
    \/ SetPageParams
    \/ RecomputeCheckpoint
    \/ SetLogicalPages
    \/ Delegate
    \/ ReturnUiUpdater

Spec == Init /\ [][Next]_vars

(* ------------------- two Tasks on different pages --------------------- *)
\* Two Tasks, each in its own process() call with its own TaskStatus, run on
\* two threads against the same Settings and PageSequence.  The first uses
\* the variables above, the second the record `other`; both go through the
\* same statements.  Both scans are unrotated: which image, which rule and
\* which stored params a call meets decide its path, and those vary.

first ==
    <<cancelled, pc, calls, inputs, locals, outcome, log, entryStore,
      entryPageCount, cancelAt, prev>>

InitPar ==
    /\ \E e \in {NoParams} \cup InitParams :
        store = [q \in Pages |-> IF q = "pA" THEN e ELSE NoParams]
    /\ pageCount = [q \in Pages |-> 1]
    /\ cancelled = FALSE
    /\ pc = "entry"
    /\ calls = 1
    /\ m_imageId \in Pages
    /\ hasNextTask \in BOOLEAN
    /\ image \in Images
    /\ pre_rotation = 0
    /\ rule = "AUTO_DETECT"
    /\ num_logical_pages = 1
    /\ deps = NoDeps
    /\ layout = NullLayout
    /\ mode = "MODE_AUTO"
    /\ params = NoParams
    /\ ui_data = EmptyUiData
    /\ outcome = NoOutcome
    /\ log = NoLog
    /\ entryStore = store
    /\ entryPageCount = pageCount
    /\ cancelAt = NoCancelAt
    /\ prev = NoPrev
    /\ \E id \in Pages \ {m_imageId}, img \in Images :
        other = [OtherIdle EXCEPT !.pc = "entry", !.id = id, !.image = img,
                                  !.rotation = 0,
                                  !.entryParams = store[id],
                                  !.entryCount = pageCount[id]]

OtherCancel ==
    /\ other.pc \notin {"idle", "done", "failed"}
    /\ ~other.cancelled
    /\ other' = [other EXCEPT !.cancelled = TRUE]
    /\ UNCHANGED <<shared, first>>

\* Line 94.
OtherEntryCheckpoint ==
    /\ other.pc = "entry"
    /\ other' = IF throwIfCancelled(other.cancelled)
                   THEN [other EXCEPT !.pc = "failed", !.kind = "Cancelled",
                                      !.cancelAtEntry = TRUE]
                   ELSE [other EXCEPT !.pc = Flow("entry", FALSE)]
    /\ UNCHANGED <<shared, first>>

\* Lines 96-127.
OtherResolveRule ==
    /\ other.pc = "resolve"
    /\ \E r \in Rules :
        LET n == LogicalPagesFor(r, other.image, other.rotation)
        IN  other' = [other EXCEPT
                        !.rule = r,
                        !.num_logical_pages = n,
                        !.deps = Dependencies(other.image, other.rotation,
                                              SinglePage(n)),
                        !.pc = Flow("resolve", FALSE)]
    /\ UNCHANGED <<shared, first>>

\* Lines 129-135.
OtherGetPageParams ==
    /\ other.pc = "read"
    /\ LET p == store[other.id]
       IN  other' = [other EXCEPT
                       !.mode = ModeFrom(p),
                       !.layout = LayoutFrom(p, other.deps),
                       !.pc = Flow("read", isNull(LayoutFrom(p, other.deps)))]
    /\ UNCHANGED <<shared, first>>

\* Lines 137-141.
OtherFindSplitLine ==
    /\ other.pc = "find"
    /\ other' = [other EXCEPT
                   !.layout = findSplitLine(other.image, other.rotation,
                                            bwThreshold(other.image),
                                            SinglePage(other.num_logical_pages)),
                   !.pc = Flow("find", TRUE)]
    /\ UNCHANGED <<shared, first>>

\* OtherSetPageParams that writes under the first Task's page.
OtherSetPageParamsWrongPage ==
    /\ other.pc = "store"
    /\ store' = [store EXCEPT
                   ![m_imageId] = NewParams(other.layout, other.deps, other.mode)]
    /\ other' = [other EXCEPT !.wrote = TRUE, !.overlap = (pc = "store"),
                              !.pc = Flow("store", TRUE)]
    /\ UNCHANGED <<pageCount, first>>

\* Lines 143-144.
OtherSetPageParams ==
    /\ other.pc = "store"
    /\ store' = [store EXCEPT
                   ![other.id] = NewParams(other.layout, other.deps, other.mode)]
    /\ other' = [other EXCEPT !.wrote = TRUE, !.overlap = (pc = "store"),
                              !.pc = Flow("store", TRUE)]
    /\ UNCHANGED <<pageCount, first>>

\* Line 146.
OtherRecomputeCheckpoint ==
    /\ other.pc = "check"
    /\ other' = IF throwIfCancelled(other.cancelled)
                   THEN [other EXCEPT !.pc = "failed", !.kind = "Cancelled"]
                   ELSE [other EXCEPT !.pc = Flow("check", TRUE)]
    /\ UNCHANGED <<shared, first>>

\* Lines 149-152.
OtherSetLogicalPages ==
    /\ other.pc = "count"
    /\ pageCount' = [pageCount EXCEPT
                       ![other.id] = CountFor(other.layout,
                                              other.num_logical_pages)]
    /\ other' = [other EXCEPT !.pc = Flow("count", other.wrote)]
    /\ UNCHANGED <<store, first>>

\* Lines 154-163.
OtherDispatch ==
    /\ other.pc = "dispatch"
    /\ \E k \in {"next", "UiUpdater"} :
        other' = [other EXCEPT !.kind = k, !.pc = Flow("dispatch", FALSE)]
    /\ UNCHANGED <<shared, first>>

NextPar ==
    \/ Cancel
    \/ EntryCheckpoint
    \/ ResolveRule
    \/ GetPageParams
    \/ FindSplitLine
    \/ SetPageParams
    \/ RecomputeCheckpoint
    \/ SetLogicalPages
    \/ Delegate
    \/ ReturnUiUpdater
    \/ OtherCancel
    \/ OtherEntryCheckpoint
    \/ OtherResolveRule
    \/ OtherGetPageParams
    \/ OtherFindSplitLine
    \/ OtherSetPageParams
    \/ OtherRecomputeCheckpoint
    \/ OtherSetLogicalPages
    \/ OtherDispatch

SpecPar == InitPar /\ [][NextPar]_vars

\* process() run on its own, as one step: the page's store entry and count
\* after a call with these inputs, given the entry `e` and count `c` before
\* it and whether the TaskStatus was cancelled at line 94 and at line 146.
SoloRun(e, c, img, rot, r, atEntry, atCheck) ==
    IF throwIfCancelled(atEntry)
       THEN [params |-> e, count |-> c]
       ELSE LET n == LogicalPagesFor(r, img, rot)
                d == Dependencies(img, rot, SinglePage(n))
                m == ModeFrom(e)
                cached == LayoutFrom(e, d)
                fresh == findSplitLine(img, rot, bwThreshold(img), SinglePage(n))
            IN  IF ~isNull(cached)
                   THEN [params |-> e, count |-> CountFor(cached, n)]
                   ELSE [params |-> NewParams(fresh, d, m),
                         count |-> IF throwIfCancelled(atCheck)
                                      THEN c
                                      ELSE CountFor(fresh, n)]

(* ----------------------------- properties ----------------------------- *)
\* The running call has returned or thrown.
Ended == pc \in {"done", "failed"}

\* The call has looked the page up in the store (line 129).
LookedUp == log.getPageParams > 0

\* The call has read the page's rule and resolved it (lines 99-122).
Resolved == pc \notin {"idle", "entry", "resolve"} /\ ~cancelAt.entry

\* The page's stored params as the call found them.
StoredAtEntry == entryStore[m_imageId]

\* The fingerprint of the call's inputs, derived from the rule as the
\* specification describes it. Meaningful once the rule has been read.
SinglePageIntent ==
    \/ rule = "SINGLE_PAGE"
    \/ rule = "AUTO_DETECT" /\ adviseNumberOfLogicalPages(image, pre_rotation) = 1
FreshFingerprint == Dependencies(image, pre_rotation, SinglePageIntent)
FreshLayout ==
    findSplitLine(image, pre_rotation, bwThreshold(image), SinglePageIntent)

FingerprintMatches ==
    /\ StoredAtEntry.present
    /\ matches(FreshFingerprint, StoredAtEntry.deps, StoredAtEntry.mode)

\* The layout handed to the next task or held by the UiUpdater.
Dispatched == IF hasNextTask THEN log.nextArg ELSE outcome.ui.pageLayout

\* The layout the decision logic is to resolve.
ResolvedLayout ==
    IF FingerprintMatches /\ ~isNull(StoredAtEntry.layout)
       THEN StoredAtEntry.layout
       ELSE FreshLayout

HitEffects ==
    /\ log.findSplitLine = 0
    /\ log.setPageParams = 0
    /\ pc = "done" => Dispatched = StoredAtEntry.layout

\* C1 as stated: whenever stored params exist and their fingerprint matches
\* the freshly derived one under the stored mode, findSplitLine and
\* setPageParams are not invoked and the dispatched layout is the stored one.
C1_HitAnyStoredLayout == (LookedUp /\ FingerprintMatches) => HitEffects

\* C1 (amended): whenever stored params exist, their fingerprint matches the
\* freshly derived one under the stored mode and the stored layout is not
\* null, findSplitLine and setPageParams are not invoked and the dispatched
\* layout is the stored one.
C1_HitSkipsRecomputation ==
    (LookedUp /\ FingerprintMatches /\ ~isNull(StoredAtEntry.layout))
        => HitEffects

\* A completed call that reused a stored layout findSplitLine would not
\* have produced.
C1_Witness ==
    /\ pc = "done"
    /\ FingerprintMatches
    /\ ~isNull(StoredAtEntry.layout)
    /\ StoredAtEntry.layout # FreshLayout
    /\ Dispatched = StoredAtEntry.layout

\* C2: a call that finds no stored params, or stored params whose
\* fingerprint does not match, invokes findSplitLine once and setPageParams
\* once for its page, with the fresh layout and the fingerprint derived in
\* this call, which matches when derived again.
C2_MissRecomputesAndStoresOnce ==
    (LookedUp /\ ~FingerprintMatches) =>
        /\ log.findSplitLine <= 1
        /\ log.setPageParams <= log.findSplitLine
        /\ Ended =>
            /\ log.findSplitLine = 1
            /\ log.setPageParams = 1
            /\ log.written.present
            /\ log.written.layout = FreshLayout
            /\ log.written.deps = FreshFingerprint
            /\ matches(FreshFingerprint, log.written.deps, log.written.mode)
            /\ store[m_imageId] = log.written

\* An ended call that replaced stored params of another fingerprint.
C2_Witness ==
    /\ Ended
    /\ StoredAtEntry.present
    /\ ~FingerprintMatches
    /\ log.setPageParams = 1
    /\ store[m_imageId] # StoredAtEntry

\* C3 as stated: if cancellation was requested by the time findSplitLine is
\* entered (or by the entry checkpoint), the call writes nothing to the
\* store and fails with Cancelled.
C3_CancelBeforeRecomputeNoWrite ==
    (cancelAt.entry \/ cancelAt.find) =>
        /\ log.setPageParams = 0
        /\ Ended => outcome.kind = "Cancelled"

\* C4 as stated: if cancellation is requested after findSplitLine returned
\* and before the result is persisted, nothing is persisted, the page's
\* store entry is what it was before the call and the call fails with
\* Cancelled.
C4_CancelBeforePersistSkipsWrite ==
    (cancelAt.store /\ ~cancelAt.find) =>
        /\ log.setPageParams = 0
        /\ store[m_imageId] = StoredAtEntry
        /\ Ended => outcome.kind = "Cancelled"

\* C5: a call that fails with Cancelled has not invoked
\* setLogicalPagesInImage, has left the page-count table as it was, and has
\* neither invoked the next task nor built a UiUpdater.
C5_CancelledLeavesPageCount ==
    outcome.kind = "Cancelled" =>
        /\ log.setLogicalPagesInImage = 0
        /\ pageCount = entryPageCount
        /\ log.nextProcess = 0
        /\ log.uiUpdater = 0

\* A call cancelled at the second checkpoint, whose layout has another
\* number of sub-pages than the table holds.
C5_Witness ==
    /\ outcome.kind = "Cancelled"
    /\ log.setPageParams = 1
    /\ numSubPages(layout) # pageCount[m_imageId]

\* C6 as stated: the resolved logical-page count is 1 under SINGLE_PAGE,
\* 2 under TWO_PAGES and the advised number under AUTO_DETECT.
C6_RuleToCount ==
    Resolved =>
        /\ rule = "SINGLE_PAGE" => num_logical_pages = 1
        /\ rule = "TWO_PAGES" => num_logical_pages = 2
        /\ rule = "AUTO_DETECT" =>
             num_logical_pages = adviseNumberOfLogicalPages(image, pre_rotation)

\* C7 as stated: every call, however it ends, has invoked
\* setLogicalPagesInImage exactly once.
C7_CountOnEveryCall == Ended => log.setLogicalPagesInImage = 1

\* C7 (amended): a call invokes setLogicalPagesInImage at most once; a call
\* that returns has invoked it exactly once, for its own page, with the
\* number of sub-pages of the layout it dispatched.
C7_CountOnEveryCompletedCall ==
    /\ log.setLogicalPagesInImage <= 1
    /\ \A q \in Pages \ {m_imageId} : pageCount[q] = entryPageCount[q]
    /\ pc = "done" =>
        /\ log.setLogicalPagesInImage = 1
        /\ log.countArg = numSubPages(Dispatched)
        /\ pageCount[m_imageId] = numSubPages(Dispatched)

\* A completed cache hit that changed the page's count.
C7_Witness ==
    /\ pc = "done"
    /\ log.findSplitLine = 0
    /\ log.setLogicalPagesInImage = 1
    /\ pageCount[m_imageId] # entryPageCount[m_imageId]

\* C8: a call that returns has either invoked the next task once with the
\* resolved layout and returned its result as it is, building no UiUpdater,
\* or (no next task) built one UiUpdater holding the resolved layout.
C8_DispatchExclusive ==
    /\ log.nextProcess + log.uiUpdater <= 1
    /\ pc = "done" =>
        IF hasNextTask
           THEN /\ log.nextProcess = 1
                /\ log.uiUpdater = 0
                /\ log.nextArg = ResolvedLayout
                /\ outcome.kind = "next"
                /\ outcome.value = log.nextResult
           ELSE /\ log.uiUpdater = 1
                /\ log.nextProcess = 0
                /\ outcome.kind = "UiUpdater"
                /\ outcome.ui.pageLayout = ResolvedLayout

\* A completed call that delegated a recomputed layout to the next task.
C8_Witness ==
    /\ pc = "done"
    /\ hasNextTask
    /\ log.findSplitLine = 1
    /\ outcome.value = "deskewR2"

\* C9: the store changes only by a setPageParams of a call that has invoked
\* findSplitLine, and only at that call's page; an entry that exists is
\* never removed; every call that passes the entry checkpoint reads the
\* page's entry.
C9_StoreDiscipline ==
    /\ [][/\ (store' # store \/ log'.setPageParams > log.setPageParams) =>
               /\ log.findSplitLine = 1
               /\ log'.setPageParams = log.setPageParams + 1
               /\ \A q \in Pages \ {m_imageId} : store'[q] = store[q]
          /\ \A q \in Pages : store[q].present => store'[q].present]_vars
    /\ []((Ended /\ ~cancelAt.entry) => log.getPageParams = 1)

\* A call that overwrote an existing entry with a recomputed one.
C9_Witness ==
    /\ StoredAtEntry.present
    /\ log.findSplitLine = 1
    /\ log.setPageParams = 1
    /\ store[m_imageId] # StoredAtEntry

\* C10: when the stored fingerprint matches, the stored mode stays as it was
\* and is the mode a returning call reports in its UI data; when the page
\* has no stored params, the mode used, stored and reported is MODE_AUTO.
C10_ModePropagation ==
    /\ (LookedUp /\ FingerprintMatches) =>
        /\ mode = StoredAtEntry.mode
        /\ store[m_imageId].mode = StoredAtEntry.mode
        /\ pc = "done" => ui_data.mode = StoredAtEntry.mode
        /\ outcome.kind = "UiUpdater" => outcome.ui.mode = StoredAtEntry.mode
    /\ (LookedUp /\ ~StoredAtEntry.present) =>
        /\ mode = "MODE_AUTO"
        /\ log.setPageParams = 1 =>
             (log.written.mode = "MODE_AUTO" /\ store[m_imageId].mode = "MODE_AUTO")
        /\ pc = "done" => ui_data.mode = "MODE_AUTO"
        /\ outcome.kind = "UiUpdater" => outcome.ui.mode = "MODE_AUTO"

\* A completed cache hit on params set by hand, reported by a UiUpdater.
C10_Witness ==
    /\ pc = "done"
    /\ FingerprintMatches
    /\ ~isNull(StoredAtEntry.layout)
    /\ StoredAtEntry.mode = "MODE_MANUAL"
    /\ outcome.kind = "UiUpdater"
    /\ outcome.ui.mode = "MODE_MANUAL"

\* C12: the auto-detected-layout field of the UI data is set if and only if
\* the rule is AUTO_DETECT; it is then SINGLE_PAGE exactly when the advised
\* number of logical pages is 1 and TWO_PAGES otherwise.
C12_AutoDetectedOnlyUnderAutoDetect ==
    LET Expected ==
            IF rule = "AUTO_DETECT"
               THEN (IF adviseNumberOfLogicalPages(image, pre_rotation) = 1
                        THEN "SINGLE_PAGE" ELSE "TWO_PAGES")
               ELSE "UNSET"
    IN  /\ Resolved => ui_data.autoDetectedLayout = Expected
        /\ outcome.kind = "UiUpdater" => outcome.ui.autoDetectedLayout = Expected

\* A UiUpdater of an AUTO_DETECT call that reports a single page.
C12_Witness ==
    /\ outcome.kind = "UiUpdater"
    /\ rule = "AUTO_DETECT"
    /\ adviseNumberOfLogicalPages(image, pre_rotation) = 1
    /\ outcome.ui.autoDetectedLayout = "SINGLE_PAGE"

\* C13: a call that returns never dispatches a null layout; matching stored
\* params that hold a null layout are recomputed and the result is stored.
C13_NullNeverDispatched ==
    /\ pc = "done" => ~isNull(Dispatched)
    /\ (Ended /\ LookedUp /\ FingerprintMatches /\ isNull(StoredAtEntry.layout)) =>
        /\ log.findSplitLine = 1
        /\ log.setPageParams = 1
        /\ store[m_imageId].layout = FreshLayout

\* A completed call that found matching params holding a null layout.
C13_Witness ==
    /\ pc = "done"
    /\ FingerprintMatches
    /\ isNull(StoredAtEntry.layout)
    /\ log.findSplitLine = 1
    /\ ~isNull(Dispatched)

\* C14: the params written after a miss carry the stored mode when stored
\* params existed, and MODE_AUTO when none existed.
C14_ModeOnMiss ==
    log.setPageParams > 0 =>
        /\ log.written.mode =
             (IF StoredAtEntry.present THEN StoredAtEntry.mode ELSE "MODE_AUTO")
        /\ store[m_imageId].mode = log.written.mode
        /\ log.written.mode = "MODE_AUTO" =>
             (~StoredAtEntry.present \/ StoredAtEntry.mode = "MODE_AUTO")

\* Params set by hand for another fingerprint, replaced by a recomputed
\* layout that is still marked MODE_MANUAL.
C14_Witness ==
    /\ StoredAtEntry.present
    /\ ~FingerprintMatches
    /\ StoredAtEntry.mode = "MODE_MANUAL"
    /\ log.setPageParams = 1
    /\ store[m_imageId] = Params(FreshLayout, FreshFingerprint, "MODE_MANUAL")

\* C15: within a call, findSplitLine is called only after getPageParams,
\* setPageParams only after findSplitLine, setLogicalPagesInImage only after
\* the read and after the write of a recomputed layout, and the next task
\* or the UiUpdater only after setLogicalPagesInImage.
C15_SideEffectOrder ==
    [][/\ log'.findSplitLine > log.findSplitLine =>
            (log.getPageParams = 1 /\ log.setPageParams = 0
             /\ log.setLogicalPagesInImage = 0)
       /\ log'.setPageParams > log.setPageParams =>
            (log.findSplitLine = 1 /\ log.setLogicalPagesInImage = 0)
       /\ log'.setLogicalPagesInImage > log.setLogicalPagesInImage =>
            (/\ log.getPageParams = 1
             /\ log.setPageParams = log.findSplitLine
             /\ log.nextProcess = 0
             /\ log.uiUpdater = 0)
       /\ (log'.nextProcess > log.nextProcess \/ log'.uiUpdater > log.uiUpdater) =>
            (/\ log.setLogicalPagesInImage = 1
             /\ pageCount[m_imageId] = numSubPages(layout))]_vars

\* A call that made all five kinds of collaborator call.
C15_Witness ==
    /\ log.getPageParams = 1
    /\ log.findSplitLine = 1
    /\ log.setPageParams = 1
    /\ log.setLogicalPagesInImage = 1
    /\ log.nextProcess = 1

\* C17: when a call returns, the page's count is the number of sub-pages of
\* the layout stored for the page, and that layout is the dispatched one.
C17_StoreAgreesWithPageCount ==
    pc = "done" =>
        /\ store[m_imageId].present
        /\ store[m_imageId].layout = Dispatched
        /\ pageCount[m_imageId] = numSubPages(store[m_imageId].layout)

\* A completed cache hit whose stored layout has another number of
\* sub-pages than the rule asks for.
C17_Witness ==
    /\ pc = "done"
    /\ log.findSplitLine = 0
    /\ rule = "SINGLE_PAGE"
    /\ numSubPages(store[m_imageId].layout) = 2
    /\ pageCount[m_imageId] = 2

\* The running call repeats the call before it, which wrote the store: same
\* page, image, pre-rotation and rule, and the store as that call left it.
Rerun ==
    /\ prev.wrote
    /\ Resolved
    /\ m_imageId = prev.id
    /\ image = prev.image
    /\ pre_rotation = prev.rotation
    /\ rule = prev.rule

\* C16: a call that repeats a call that wrote the store is a cache hit: it
\* calls neither findSplitLine nor setPageParams, leaves the store as it
\* found it and, when it returns, dispatches the stored layout.
C16_RerunIsCacheHit ==
    Rerun =>
        /\ log.findSplitLine = 0
        /\ log.setPageParams = 0
        /\ store = entryStore
        /\ pc # "failed"
        /\ pc = "done" =>
            (Dispatched = StoredAtEntry.layout /\ Dispatched = FreshLayout)

\* A completed repeat of a call that was cancelled after its store write.
C16_Witness ==
    /\ Rerun
    /\ pc = "done"
    /\ log.getPageParams = 1
    /\ pageCount[m_imageId] # entryPageCount[m_imageId]
    /\ Dispatched = StoredAtEntry.layout

\* What the first and the second Task leave behind when run on their own.
SoloFirst ==
    SoloRun(entryStore[m_imageId], entryPageCount[m_imageId], image,
            pre_rotation, rule, cancelAt.entry,
            outcome.kind = "Cancelled" /\ ~cancelAt.entry)
SoloOther ==
    SoloRun(other.entryParams, other.entryCount, other.image, other.rotation,
            other.rule, other.cancelAtEntry,
            other.kind = "Cancelled" /\ ~other.cancelAtEntry)
OtherEnded == other.pc \in {"done", "failed"}

\* A call run after another is what SoloRun makes of it: the two
\* descriptions of process() agree.
SoloRunAgreesWithSteps ==
    Ended =>
        /\ store[m_imageId] = SoloFirst.params
        /\ pageCount[m_imageId] = SoloFirst.count

\* C11: with two calls for different pages interleaved in any way, no step
\* of one call changes the store entry or the page count of the other
\* call's page, and when a call has ended its page's store entry and page
\* count are those the call leaves when it runs on its own.
C11_DisjointPagesDoNotInterfere ==
    /\ [][/\ other' = other =>
               /\ store'[other.id] = store[other.id]
               /\ pageCount'[other.id] = pageCount[other.id]
          /\ other' # other =>
               /\ store'[m_imageId] = store[m_imageId]
               /\ pageCount'[m_imageId] = pageCount[m_imageId]]_vars
    /\ [](Ended =>
            /\ store[m_imageId] = SoloFirst.params
            /\ pageCount[m_imageId] = SoloFirst.count)
    /\ [](OtherEnded =>
            /\ store[other.id] = SoloOther.params
            /\ pageCount[other.id] = SoloOther.count)

\* Both calls have returned, both wrote the store and the page count, and
\* the second wrote the store between the first's findSplitLine and
\* setPageParams.
C11_Witness ==
    /\ pc = "done"
    /\ other.pc = "done"
    /\ log.setPageParams = 1
    /\ other.wrote
    /\ other.overlap
    /\ store[m_imageId] # entryStore[m_imageId]
    /\ store[other.id] # other.entryParams
    /\ pageCount[m_imageId] = 2
    /\ pageCount[other.id] = 2
=============================================================================
